---- MODULE Spec2Model ----
(***************************************************************************)
(* Task-management front end: the route handlers of                        *)
(* src/main/routes/home.ts and the browser-side submit validator           *)
(* (task-validation.js).  Strings are sequences of one-character strings,  *)
(* a Date is an instant in whole hours since the epoch (or NaN), and the   *)
(* backend is an environment that answers each call with ok, 404 or 500.   *)
(***************************************************************************)
EXTENDS Integers, Sequences, FiniteSets, TLC

(***************************************************************************)
(* Bounds of the model.                                                    *)
(***************************************************************************)
MaxTicks == 1          \* clock advances explored per behaviour
MaxDayInput == 32      \* numeric day strings 0..MaxDayInput (validator spec)
MaxMonthInput == 13    \* numeric month strings 0..MaxMonthInput
MaxYearInput == 2026   \* numeric year strings up to MaxYearInput ...
YearSpan == 7          \* ... starting YearSpan years earlier
TickHours == 13        \* length of one clock advance
MaxTasks == 2          \* longest task array the backend answers with

(***************************************************************************)
(* JavaScript values.                                                      *)
(***************************************************************************)
\* a body field that was not sent / a form element that does not exist
Missing == <<"<undefined>">>
StatusMissing == "<undefined>"

NaN == [nan |-> TRUE, n |-> 0]
Num(n) == [nan |-> FALSE, n |-> n]

InvalidDate == [valid |-> FALSE, t |-> 0]
NullDate == [null |-> TRUE, y |-> 0, m |-> 0, d |-> 0, h |-> 0]

\* truthiness of a string | undefined
Truthy(s) == s # Missing /\ s # <<>>

WhiteSpace == {" ", "\t"}

RECURSIVE TrimStart(_)
TrimStart(s) ==
  IF s # <<>> /\ Head(s) \in WhiteSpace THEN TrimStart(Tail(s)) ELSE s

RECURSIVE TrimEnd(_)
TrimEnd(s) ==
  IF s # <<>> /\ s[Len(s)] \in WhiteSpace
    THEN TrimEnd(SubSeq(s, 1, Len(s) - 1))
    ELSE s

\* String.prototype.trim
Trim(s) == TrimEnd(TrimStart(s))

\* title? without the trim()
OptTrimNone(s) == s

\* title?.trim(): undefined stays undefined
OptTrim(s) == IF s = Missing THEN Missing ELSE Trim(s)

DigitValue(c) ==
  CASE c = "0" -> 0 [] c = "1" -> 1 [] c = "2" -> 2 [] c = "3" -> 3
    [] c = "4" -> 4 [] c = "5" -> 5 [] c = "6" -> 6 [] c = "7" -> 7
    [] c = "8" -> 8 [] c = "9" -> 9
    [] c \in {"a", "A"} -> 10 [] c \in {"b", "B"} -> 11
    [] c \in {"c", "C"} -> 12 [] c \in {"d", "D"} -> 13
    [] c \in {"e", "E"} -> 14 [] c \in {"f", "F"} -> 15
    [] OTHER -> 99

\* the longest prefix of s made of digits of the radix, as a number;
\* acc is the value so far, seen tells whether a digit was consumed
RECURSIVE ParseDigits(_, _, _, _)
ParseDigits(s, radix, acc, seen) ==
  IF s # <<>> /\ DigitValue(Head(s)) < radix
    THEN ParseDigits(Tail(s), radix, acc * radix + DigitValue(Head(s)), TRUE)
    ELSE IF seen THEN Num(acc) ELSE NaN

\* parseInt(string) with no radix argument: leading white space, a sign,
\* an optional 0x prefix, then digits up to the first other character
ParseInt(str) ==
  IF str = Missing THEN NaN
  ELSE
    LET s0 == TrimStart(str)
        neg == s0 # <<>> /\ Head(s0) = "-"
        s1 == IF s0 # <<>> /\ Head(s0) \in {"-", "+"} THEN Tail(s0) ELSE s0
        hex == Len(s1) >= 2 /\ s1[1] = "0" /\ s1[2] \in {"x", "X"}
        s2 == IF hex THEN SubSeq(s1, 3, Len(s1)) ELSE s1
        r == ParseDigits(s2, IF hex THEN 16 ELSE 10, 0, FALSE)
    IN IF r.nan THEN NaN ELSE Num(IF neg THEN 0 - r.n ELSE r.n)

DigitChar(n) == <<"0", "1", "2", "3", "4", "5", "6", "7", "8", "9">>[n + 1]

\* Number.prototype.toString for a non-negative integer
NumToString(n) ==
  LET Digits[k \in Nat] ==
        IF k < 10 THEN <<DigitChar(k)>>
        ELSE Digits[k \div 10] \o <<DigitChar(k % 10)>>
  IN Digits[n]

(***************************************************************************)
(* Calendar arithmetic of the Date object (proleptic Gregorian).           *)
(***************************************************************************)
\* days since 1970-01-01 of the civil date (y, m, d), m in 1..12, any d
DaysFromCivil(y, m, d) ==
  LET yy == IF m <= 2 THEN y - 1 ELSE y
      era == yy \div 400
      yoe == yy - era * 400
      mp == IF m > 2 THEN m - 3 ELSE m + 9
      doy == ((153 * mp + 2) \div 5) + d - 1
      doe == yoe * 365 + (yoe \div 4) - (yoe \div 100) + doy
  IN era * 146097 + doe - 719468

\* the civil date of a day number
CivilFromDays(z) ==
  LET zz == z + 719468
      era == zz \div 146097
      doe == zz - era * 146097
      yoe == (doe - (doe \div 1460) + (doe \div 36524) - (doe \div 146096)) \div 365
      doy == doe - (365 * yoe + (yoe \div 4) - (yoe \div 100))
      mp == (5 * doy + 2) \div 153
      d == doy - ((153 * mp + 2) \div 5) + 1
      m == IF mp < 10 THEN mp + 3 ELSE mp - 9
      y == yoe + era * 400 + (IF m <= 2 THEN 1 ELSE 0)
  IN [y |-> y, m |-> m, d |-> d]

\* new Date(year, monthIndex, day) in the local zone: NaN arguments give
\* an Invalid Date, years 0..99 mean 1900..1999, month and day overflow
\* roll over into the neighbouring months and years
NewDate(year, monthIndex, day, zone) ==
  IF year.nan \/ monthIndex.nan \/ day.nan THEN InvalidDate
  ELSE
    LET y0 == IF year.n >= 0 /\ year.n <= 99 THEN 1900 + year.n ELSE year.n
        y1 == y0 + (monthIndex.n \div 12)
        m1 == (monthIndex.n % 12) + 1
    IN [valid |-> TRUE, t |-> DaysFromCivil(y1, m1, day.n) * 24 - zone]

\* Date.prototype.getDate / getMonth / getFullYear in the local zone
GetDate(date, zone) ==
  IF date.valid THEN Num(CivilFromDays((date.t + zone) \div 24).d) ELSE NaN

GetMonth(date, zone) ==
  IF date.valid THEN Num(CivilFromDays((date.t + zone) \div 24).m - 1) ELSE NaN

GetFullYear(date, zone) ==
  IF date.valid THEN Num(CivilFromDays((date.t + zone) \div 24).y) ELSE NaN

\* today.setHours(0, 0, 0, 0): the start of the local day of an instant
SetHoursZero(date, zone) ==
  [valid |-> TRUE, t |-> ((date.t + zone) \div 24) * 24 - zone]

\* Date.prototype.toISOString: the instant written in UTC
ToISOString(date) ==
  LET c == CivilFromDays(date.t \div 24)
  IN [null |-> FALSE, y |-> c.y, m |-> c.m, d |-> c.d, h |-> date.t % 24]

\* the != / !== of two numbers: NaN differs from everything
NumNotEqual(a, b) == a.nan \/ b.nan \/ a.n # b.n

\* a - 1 on a number
MinusOne(a) == IF a.nan THEN NaN ELSE Num(a.n - 1)

\* relational comparison of two Dates (false when either is invalid)
DateLess(a, b) == a.valid /\ b.valid /\ a.t < b.t
\* dateObj < today where the handler has dateObj <= today
DateLessEqStrict(a, b) == a.valid /\ b.valid /\ a.t < b.t

DateLessEq(a, b) == a.valid /\ b.valid /\ a.t <= b.t

(***************************************************************************)
(* Server-side validation (routes/home.ts, identical in the create and     *)
(* the edit handler).                                                      *)
(***************************************************************************)
Err(text, href) == [text |-> text, href |-> href]

TitleRequired == Err("Title is required", "#title")
DescriptionRequired == Err("Description is required", "#description")
DateIncomplete ==
  Err("Please enter a complete due date or leave all fields blank", "#due-date-day")
DateInvalid == Err("Please enter a valid due date", "#due-date-day")
DateNotFuture == Err("Due date must be in the future", "#due-date-day")
ClientTitleTooShort == Err("Title must be at least 3 characters long", "#title")
ClientDescriptionTooShort ==
  Err("Description must be at least 10 characters long", "#description")
ClientDateInPast == Err("Due date cannot be in the past", "#due-date-day")

\* if (!title?.trim()) errors.push(...)
ServerTitle(b) ==
  IF ~Truthy(OptTrim(b.title)) THEN <<TitleRequired>> ELSE <<>>

\* if (!description?.trim()) errors.push(...)
ServerDescription(b) ==
  IF ~Truthy(OptTrim(b.description)) THEN <<DescriptionRequired>> ELSE <<>>

\* the handler without its round-trip comparison
ServerRoundTripNever(dateObj, dueDay, dueMonth, z) == FALSE

\* dateObj.getDate() != parseInt(dueDay) || dateObj.getMonth() != parseInt(dueMonth) - 1
ServerRoundTripFails(dateObj, dueDay, dueMonth, z) ==
  \/ NumNotEqual(GetDate(dateObj, z), ParseInt(dueDay))
  \/ NumNotEqual(GetMonth(dateObj, z), MinusOne(ParseInt(dueMonth)))

\* the branch taken when all three parts are given
ServerDueDateComplete(dueDay, dueMonth, dueYear, clock, z) ==
  LET dateObj == NewDate(ParseInt(dueYear), MinusOne(ParseInt(dueMonth)),
                         ParseInt(dueDay), z)
  IN IF ServerRoundTripFails(dateObj, dueDay, dueMonth, z)
       THEN [errs |-> <<DateInvalid>>, dueDate |-> NullDate]
       ELSE
         LET today == SetHoursZero(clock, z)
         IN IF DateLessEq(dateObj, today)
              THEN [errs |-> <<DateNotFuture>>, dueDate |-> NullDate]
              ELSE [errs |-> <<>>, dueDate |-> ToISOString(dateObj)]

\* ServerDueDate testing only !dueDay for completeness
ServerDueDateDayOnly(b, clock, z) ==
  IF Truthy(b.day) \/ Truthy(b.month) \/ Truthy(b.year)
    THEN IF ~Truthy(b.day)
           THEN [errs |-> <<DateIncomplete>>, dueDate |-> NullDate]
           ELSE ServerDueDateComplete(b.day, b.month, b.year, clock, z)
    ELSE [errs |-> <<>>, dueDate |-> NullDate]

\* the due-date block: the errors it pushes and the dueDate it leaves
ServerDueDate(b, clock, z) ==
  LET dueDay == b.day
      dueMonth == b.month
      dueYear == b.year
  IN IF Truthy(dueDay) \/ Truthy(dueMonth) \/ Truthy(dueYear)
       THEN IF ~Truthy(dueDay) \/ ~Truthy(dueMonth) \/ ~Truthy(dueYear)
              THEN [errs |-> <<DateIncomplete>>, dueDate |-> NullDate]
              ELSE ServerDueDateComplete(dueDay, dueMonth, dueYear, clock, z)
       ELSE [errs |-> <<>>, dueDate |-> NullDate]

\* ServerValidate with the checks chained by else-if
ServerValidateShortCircuit(b, clock, z) ==
  LET dd == ServerDueDate(b, clock, z)
  IN [errors |-> IF ServerTitle(b) # <<>> THEN ServerTitle(b)
                 ELSE IF ServerDescription(b) # <<>> THEN ServerDescription(b)
                 ELSE dd.errs,
      dueDate |-> dd.dueDate]

\* the whole validation block: every check runs, in source order
ServerValidate(b, clock, z) ==
  LET dd == ServerDueDate(b, clock, z)
  IN [errors |-> ServerTitle(b) \o ServerDescription(b) \o dd.errs,
      dueDate |-> dd.dueDate]

(***************************************************************************)
(* Browser-side validation (the submit listener of task-validation.js).    *)
(* A Missing field is a form without that input element.                   *)
(***************************************************************************)
\* the title check without the else-if on the length
ClientTitleRequiredOnly(f) ==
  IF f.title = Missing THEN <<>>
  ELSE IF ~Truthy(Trim(f.title)) THEN <<TitleRequired>> ELSE <<>>

ClientTitle(f) ==
  IF f.title = Missing THEN <<>>
  ELSE LET title == Trim(f.title)
       IN IF ~Truthy(title) THEN <<TitleRequired>>
          ELSE IF Len(title) < 3 THEN <<ClientTitleTooShort>>
          ELSE <<>>

ClientDescription(f) ==
  IF f.description = Missing THEN <<>>
  ELSE LET description == Trim(f.description)
       IN IF ~Truthy(description) THEN <<DescriptionRequired>>
          ELSE IF Len(description) < 10 THEN <<ClientDescriptionTooShort>>
          ELSE <<>>

\* the smallest year the browser accepts
MinSaneYear == 2020

\* isNaN(...) || dayNum < 1 || dayNum > 31 || monthNum < 1 || monthNum > 12 || yearNum < 2020
ClientOutOfRange(dayNum, monthNum, yearNum) ==
  \/ dayNum.nan \/ monthNum.nan \/ yearNum.nan
  \/ dayNum.n < 1 \/ dayNum.n > 31
  \/ monthNum.n < 1 \/ monthNum.n > 12
  \/ yearNum.n < MinSaneYear

\* dateObj.getDate() !== dayNum || dateObj.getMonth() !== monthNum - 1
ClientRoundTripFails(dateObj, dayNum, monthNum, z) ==
  \/ NumNotEqual(GetDate(dateObj, z), dayNum)
  \/ NumNotEqual(GetMonth(dateObj, z), MinusOne(monthNum))

\* the branch taken when all three trimmed parts are given
ClientDueDateComplete(day, month, year, clock, z) ==
  LET dayNum == ParseInt(day)
      monthNum == ParseInt(month)
      yearNum == ParseInt(year)
  IN IF ClientOutOfRange(dayNum, monthNum, yearNum)
       THEN <<DateInvalid>>
       ELSE
         LET dateObj == NewDate(yearNum, MinusOne(monthNum), dayNum, z)
         IN IF ClientRoundTripFails(dateObj, dayNum, monthNum, z)
              THEN <<DateInvalid>>
              ELSE
                LET today == SetHoursZero(clock, z)
                IN IF DateLess(dateObj, today)
                     THEN <<ClientDateInPast>>
                     ELSE <<>>

ClientDueDate(f, clock, z) ==
  IF f.day = Missing \/ f.month = Missing \/ f.year = Missing THEN <<>>
  ELSE
    LET day == Trim(f.day)
        month == Trim(f.month)
        year == Trim(f.year)
    IN IF Truthy(day) \/ Truthy(month) \/ Truthy(year)
         THEN IF ~Truthy(day) \/ ~Truthy(month) \/ ~Truthy(year)
                THEN <<DateIncomplete>>
                ELSE ClientDueDateComplete(day, month, year, clock, z)
         ELSE <<>>

\* the errors array of the submit listener, in push order
ClientValidate(f, clock, z) ==
  ClientTitle(f) \o ClientDescription(f) \o ClientDueDate(f, clock, z)

(***************************************************************************)
(* State.                                                                  *)
(***************************************************************************)
VARIABLES
  now,          \* the clock: hours since the epoch
  zone,         \* local time minus UTC, in hours
  ticks,        \* clock advances so far
  pc,           \* position of the request
  route,        \* the route the request is for
  id,           \* req.params.id (0 on routes without :id)
  statusParam,  \* req.params.status of the filter route
  query,        \* req.query.q of the search route
  body,         \* req.body / the values held by the form
  clientErrors, \* errors array of the browser's submit listener
  errors,       \* errors array of the server handler
  dueDate,      \* dueDate local of the server handler
  handledAt,    \* the clock as the server handler read it while validating
  calls,        \* backend calls issued by the handler, in order
  replies,      \* how the backend answered them, in the same order
  data,         \* response.data of each answer, in the same order
  sent          \* responses sent by the handler, in order

vars == <<now, zone, ticks, pc, route, id, statusParam, query, body,
          clientErrors, errors, dueDate, handledAt, calls, replies, data,
          sent>>

(***************************************************************************)
(* Inputs.                                                                 *)
(***************************************************************************)
Zones == {0 - 5, 1}

\* local wall-clock instants the behaviours start at
LocalStarts ==
  { [y |-> 2024, m |-> 2, d |-> 28, h |-> 0],
    [y |-> 2025, m |-> 12, d |-> 31, h |-> 13] }

InstantOf(l, z) == DaysFromCivil(l.y, l.m, l.d) * 24 + l.h - z

TaskIds == {1, 999}
Routes == {[route |-> "create", id |-> 0]}
            \cup {[route |-> "edit", id |-> i] : i \in TaskIds}

\* the routes without a form: list, filter, search, the create form,
\* detail, the edit form, status change and delete
ReadRoutes ==
  {[route |-> r, id |-> 0] : r \in {"home", "filter", "search", "createForm"}}
    \cup {[route |-> r, id |-> i] :
            r \in {"view", "editForm", "status", "delete"}, i \in TaskIds}

\* req.params.status of the filter route
StatusParams == {"COMPLETED", "bogus"}

\* req.query.q of the search route
QueryValues == {Missing, <<>>, <<" ">>, <<"t", "a", " ", "x">>}

StatusValues == {StatusMissing, "", "IN_PROGRESS"}

GoodTitle == <<" ", "F", "i", "x", " ", "I", "t", " ">>
GoodDescription ==
  <<"W", "r", "i", "t", "e", " ", "t", "h", "e", " ", "D", "o", "c", "s", "\t">>
TitleValues == {Missing, <<>>, <<" ", "\t">>, GoodTitle}
DescriptionValues == {Missing, <<"\t">>, GoodDescription}

Body(t, de, st, d, m, y) ==
  [title |-> t, description |-> de, status |-> st,
   day |-> d, month |-> m, year |-> y]

S(n) == NumToString(n)

\* due-date triples submitted together with every title and description
FewDates ==
  { <<Missing, Missing, Missing>>,
    <<S(15), S(12), <<>>>>,
    <<S(31), S(2), S(2026)>>,
    <<S(31), S(12), S(2025)>> }

DayValues == {Missing, <<>>, S(1), S(28), S(29), S(31)}
MonthValues == {Missing, <<>>, S(1), S(2), S(3), S(12)}
YearValues == {<<>>, S(2024), S(2025), S(2026)}

Bodies ==
  { Body(t, de, st, dt[1], dt[2], dt[3]) :
      t \in TitleValues, de \in DescriptionValues,
      st \in StatusValues, dt \in FewDates }
  \cup
  { Body(GoodTitle, GoodDescription, "TODO", d, m, y) :
      d \in DayValues, m \in MonthValues, y \in YearValues }

Outcomes == {"ok", "notFound", "failure"}

(***************************************************************************)
(* Responses and backend calls.                                            *)
(***************************************************************************)
NoTarget == [path |-> "", id |-> 0]

\* the locals of a list page when the view is not the list: none
NoList ==
  [tasks |-> <<>>, statistics |-> <<>>, example |-> <<>>,
   currentFilter |-> "", searchTerm |-> Missing]

Render(view, code, errs, error, message, formData, task) ==
  [kind |-> "render", view |-> view, code |-> code, target |-> NoTarget,
   errors |-> errs, error |-> error, message |-> message,
   formData |-> formData, task |-> task, list |-> NoList]

\* res.render('home', {error, tasks, statistics, example, currentFilter,
\* searchTerm}); statistics and example are <<>> for null
RenderList(error, tasks, statistics, example, currentFilter, searchTerm) ==
  [Render("home", 200, <<>>, error, "", <<>>, <<>>) EXCEPT
     !.list = [tasks |-> tasks, statistics |-> statistics,
               example |-> example, currentFilter |-> currentFilter,
               searchTerm |-> searchTerm]]

Redirect(path, i) ==
  [kind |-> "redirect", view |-> "", code |-> 302,
   target |-> [path |-> path, id |-> i],
   errors |-> <<>>, error |-> "", message |-> "",
   formData |-> <<>>, task |-> <<>>, list |-> NoList]

Call(method, path, i, payload) ==
  [method |-> method, path |-> path, id |-> i, payload |-> payload]

(***************************************************************************)
(* Task records of the backend and the formatters of routes/home.ts.       *)
(***************************************************************************)
ISO(y, m, d, h) == [null |-> FALSE, y |-> y, m |-> m, d |-> d, h |-> h]

\* a TaskApiResponse
Task(i, status, due) ==
  [id |-> i, title |-> "Test Task", description |-> "Test Description",
   status |-> status, dueDate |-> due,
   createdAt |-> ISO(2024, 1, 1, 10), updatedAt |-> ISO(2024, 1, 1, 10)]

TaskStatuses == {"TODO", "COMPLETED", "CANCELLED"}

\* no due date, one long past, and one that is the very hour some
\* behaviours start at (ahead of the others)
DueDates == { NullDate, ISO(2020, 1, 1, 10), ISO(2024, 2, 28, 5) }

\* the records the backend may answer a read of task i with
TaskRecords(i) == { Task(i, st, due) : st \in TaskStatuses, due \in DueDates }

\* the task record a successful GET /api/tasks/:id answers the edit
\* submission with
TaskData(i) == Task(i, "TODO", ISO(2024, 12, 31, 10))

\* status and dueDate of the tasks that appear in arrays
ListedTasks ==
  { <<"TODO", NullDate>>, <<"TODO", ISO(2020, 1, 1, 10)>>,
    <<"TODO", ISO(2024, 2, 28, 5)>>, <<"COMPLETED", ISO(2020, 1, 1, 10)>>,
    <<"COMPLETED", ISO(2024, 2, 28, 5)>>, <<"CANCELLED", ISO(2020, 1, 1, 10)>> }

\* the arrays the backend may answer a tasks read with
TaskLists ==
  UNION { { [k \in 1..n |-> Task(k, f[k][1], f[k][2])] :
              f \in [1..n -> ListedTasks] } : n \in 0..MaxTasks }

\* a TaskStatistics, passed through as it came
StatsData ==
  [totalTasks |-> 2, todoTasks |-> 1, inProgressTasks |-> 0,
   completedTasks |-> 1, cancelledTasks |-> 0, overdueTasks |-> 1]

NullString == <<"<null>">>

\* new Date(isoString)
FromISO(iso) ==
  [valid |-> TRUE, t |-> DaysFromCivil(iso.y, iso.m, iso.d) * 24 + iso.h]

\* String.prototype.padStart(n, c)
RECURSIVE PadStart(_, _, _)
PadStart(s, n, c) == IF Len(s) >= n THEN s ELSE PadStart(<<c>> \o s, n, c)

\* toLocaleDateString('en-GB', {day: '2-digit', month: '2-digit',
\* year: 'numeric', hour: '2-digit', minute: '2-digit'}) in the local zone
FormatLocale(date, z) ==
  LET Written[local \in Int] ==
        LET c == CivilFromDays(local \div 24)
            h == local % 24
        IN PadStart(NumToString(c.d), 2, "0") \o <<"/">>
             \o PadStart(NumToString(c.m), 2, "0") \o <<"/">>
             \o NumToString(c.y) \o <<",", " ">>
             \o PadStart(NumToString(h), 2, "0") \o <<":", "0", "0">>
  IN Written[date.t + z]

\* the computed fields alone, without the ...task
SpreadLosing(task, computed) == computed

\* {...task, computed fields}: a later key replaces an earlier one
Spread(task, computed) == computed @@ task

\* the map callback with isOverdue lacking the status test
FormatTaskInListAnyStatus(task, clock, z) ==
  Spread(task,
    [formattedDueDate |->
       IF task.dueDate.null THEN NullString
       ELSE FormatLocale(FromISO(task.dueDate), z),
     isOverdue |->
       IF task.dueDate.null THEN FALSE
       ELSE DateLess(FromISO(task.dueDate), clock)])

\* the map callback of formatTasksWithDates
FormatTaskInList(task, clock, z) ==
  Spread(task,
    [formattedDueDate |->
       IF task.dueDate.null THEN NullString
       ELSE FormatLocale(FromISO(task.dueDate), z),
     isOverdue |->
       IF task.dueDate.null THEN FALSE
       ELSE DateLess(FromISO(task.dueDate), clock)
              /\ task.status # "COMPLETED"])

FormatTasksWithDates(tasks, clock, z) ==
  [k \in 1..Len(tasks) |-> FormatTaskInList(tasks[k], clock, z)]

\* the single-task formatter taking the date parts in UTC
FormatSingleTaskUTCParts(task, clock, z) ==
  LET due == IF task.dueDate.null THEN InvalidDate ELSE FromISO(task.dueDate)
      has == ~task.dueDate.null
  IN Spread(task,
       [formattedDueDate |->
          IF has THEN FormatLocale(due, z) ELSE NullString,
        formattedCreatedAt |-> FormatLocale(FromISO(task.createdAt), z),
        formattedUpdatedAt |-> FormatLocale(FromISO(task.updatedAt), z),
        isOverdue |->
          IF has THEN DateLess(due, clock) /\ task.status # "COMPLETED"
          ELSE FALSE,
        dueDateDay |->
          IF has THEN PadStart(NumToString(task.dueDate.d), 2, "0") ELSE <<>>,
        dueDateMonth |->
          IF has THEN PadStart(NumToString(task.dueDate.m), 2, "0") ELSE <<>>,
        dueDateYear |->
          IF has THEN NumToString(task.dueDate.y) ELSE <<>>])

FormatSingleTask(task, clock, z) ==
  LET due == IF task.dueDate.null THEN InvalidDate ELSE FromISO(task.dueDate)
      has == ~task.dueDate.null
  IN Spread(task,
       [formattedDueDate |->
          IF has THEN FormatLocale(due, z) ELSE NullString,
        formattedCreatedAt |-> FormatLocale(FromISO(task.createdAt), z),
        formattedUpdatedAt |-> FormatLocale(FromISO(task.updatedAt), z),
        isOverdue |->
          IF has THEN DateLess(due, clock) /\ task.status # "COMPLETED"
          ELSE FALSE,
        dueDateDay |->
          IF has THEN PadStart(NumToString(GetDate(due, z).n), 2, "0")
          ELSE <<>>,
        dueDateMonth |->
          IF has THEN PadStart(NumToString(GetMonth(due, z).n + 1), 2, "0")
          ELSE <<>>,
        dueDateYear |->
          IF has THEN NumToString(GetFullYear(due, z).n) ELSE <<>>])

\* CreatePayload forwarding the fields as submitted
CreatePayloadUntrimmed(b, due) ==
  [title |-> b.title, description |-> b.description,
   status |-> IF b.status = StatusMissing \/ b.status = ""
                THEN "TODO" ELSE b.status,
   dueDate |-> due]

\* the object literal posted by the create handler
CreatePayload(b, due) ==
  [title |-> Trim(b.title), description |-> Trim(b.description),
   status |-> IF b.status = StatusMissing \/ b.status = ""
                THEN "TODO" ELSE b.status,
   dueDate |-> due]

\* the object literal put by the edit handler
EditPayload(b, due) ==
  [title |-> Trim(b.title), description |-> Trim(b.description),
   status |-> b.status, dueDate |-> due]

Clock == [valid |-> TRUE, t |-> now]

(***************************************************************************)
(* Initial states.                                                         *)
(***************************************************************************)
InitHandler ==
  /\ ticks = 0
  /\ clientErrors = <<>>
  /\ errors = <<>>
  /\ dueDate = NullDate
  /\ handledAt = 0
  /\ calls = <<>>
  /\ replies = <<>>
  /\ data = <<>>
  /\ sent = <<>>

\* req.body of a request that carries no form
NoBody == Body(Missing, Missing, StatusMissing, Missing, Missing, Missing)

\* the status field posted by the quick-action form
StatusRequestValues == {StatusMissing, "", "COMPLETED", "bogus"}

\* a create or edit form about to be submitted
InitForm ==
  /\ pc = "typed"
  /\ \E r \in Routes : route = r.route /\ id = r.id
  /\ body \in Bodies
  /\ statusParam = ""
  /\ query = Missing

\* a request for one of the other routes, as it arrives
InitRequest ==
  /\ pc = "requested"
  /\ \E r \in ReadRoutes : route = r.route /\ id = r.id
  /\ IF route = "status"
       THEN \E st \in StatusRequestValues : body = [NoBody EXCEPT !.status = st]
       ELSE body = NoBody
  /\ IF route = "filter" THEN statusParam \in StatusParams ELSE statusParam = ""
  /\ IF route = "search" THEN query \in QueryValues ELSE query = Missing

Init ==
  /\ zone \in Zones
  /\ \E l \in LocalStarts : now = InstantOf(l, zone)
  /\ InitForm \/ InitRequest
  /\ InitHandler

(***************************************************************************)
(* The browser.                                                            *)
(***************************************************************************)
\* the submit listener: preventDefault when it collected an error,
\* otherwise the form is posted with the values as typed
BrowserSubmit ==
  /\ pc = "typed"
  /\ clientErrors' = ClientValidate(body, Clock, zone)
  /\ pc' = IF clientErrors' # <<>> THEN "prevented" ELSE "posted"
  /\ UNCHANGED <<now, zone, ticks, route, id, statusParam, query, body, errors, dueDate,
                 handledAt, calls, replies, data, sent>>

\* a request that does not pass through the script (no JavaScript, API client)
DirectSubmit ==
  /\ pc = "typed"
  /\ pc' = "posted"
  /\ UNCHANGED <<now, zone, ticks, route, id, statusParam, query, body, clientErrors, errors,
                 dueDate, handledAt, calls, replies, data, sent>>

(***************************************************************************)
(* POST /tasks/create                                                      *)
(***************************************************************************)
\* PostCreate without the return in front of res.render: the handler goes
\* on to post the task although validation failed
PostCreateNoReturn ==
  /\ pc = "posted"
  /\ route = "create"
  /\ LET v == ServerValidate(body, Clock, zone)
     IN /\ errors' = v.errors
        /\ dueDate' = v.dueDate
        /\ handledAt' = now
        /\ sent' = IF v.errors # <<>>
                     THEN Append(sent,
                            Render("tasks/create", 200, v.errors, "", "",
                                   <<body>>, <<>>))
                     ELSE sent
        /\ calls' = Append(calls,
             Call("POST", "/api/tasks", 0,
                  <<[title |-> OptTrim(body.title),
                     description |-> OptTrim(body.description),
                     status |-> "TODO", dueDate |-> v.dueDate]>>))
        /\ pc' = "createWrite"
  /\ UNCHANGED <<now, zone, ticks, route, id, statusParam, query, body, clientErrors, replies, data>>

PostCreate ==
  /\ pc = "posted"
  /\ route = "create"
  /\ LET v == ServerValidate(body, Clock, zone)
     IN /\ errors' = v.errors
        /\ dueDate' = v.dueDate
        /\ handledAt' = now
        /\ IF v.errors # <<>>
             THEN /\ sent' = Append(sent,
                       Render("tasks/create", 200, v.errors, "", "",
                              <<body>>, <<>>))
                  /\ pc' = "done"
                  /\ calls' = calls
             ELSE /\ calls' = Append(calls,
                       Call("POST", "/api/tasks", 0,
                            <<CreatePayload(body, v.dueDate)>>))
                  /\ pc' = "createWrite"
                  /\ sent' = sent
  /\ UNCHANGED <<now, zone, ticks, route, id, statusParam, query, body, clientErrors, replies, data>>

\* the await of axios.post settles
CreateWriteReplies ==
  /\ pc = "createWrite"
  /\ \E o \in Outcomes :
       /\ replies' = Append(replies, o)
       /\ data' = Append(data, <<>>)
       /\ sent' = Append(sent,
         IF o = "ok"
           THEN Redirect("/", 0)
           ELSE Render("tasks/create", 200, <<>>,
                       "Failed to create task. Please try again.", "",
                       <<body>>, <<>>))
  /\ pc' = "done"
  /\ UNCHANGED <<now, zone, ticks, route, id, statusParam, query, body, clientErrors, errors,
                 dueDate, handledAt, calls>>

(***************************************************************************)
(* POST /tasks/:id/edit                                                    *)
(***************************************************************************)
PostEdit ==
  /\ pc = "posted"
  /\ route = "edit"
  /\ LET v == ServerValidate(body, Clock, zone)
     IN /\ errors' = v.errors
        /\ dueDate' = v.dueDate
        /\ handledAt' = now
        /\ IF v.errors # <<>>
             THEN /\ calls' = Append(calls,
                       Call("GET", "/api/tasks/:id", id, <<>>))
                  /\ pc' = "editRefetch"
             ELSE /\ calls' = Append(calls,
                       Call("PUT", "/api/tasks/:id", id,
                            <<EditPayload(body, v.dueDate)>>))
                  /\ pc' = "editWrite"
  /\ UNCHANGED <<now, zone, ticks, route, id, statusParam, query, body, clientErrors, replies, data,
                 sent>>

\* the await of the re-fetch after a failed validation settles; a rejection
\* is caught by the handler's catch block, which fetches the task again
EditRefetchReplies ==
  /\ pc = "editRefetch"
  /\ \E o \in Outcomes :
       /\ replies' = Append(replies, o)
       /\ data' = Append(data, IF o = "ok" THEN <<TaskData(id)>> ELSE <<>>)
       /\ IF o = "ok"
         THEN /\ sent' = Append(sent,
                   Render("tasks/edit", 200, errors, "", "",
                          <<body>>,
                       <<FormatSingleTask(TaskData(id), Clock, zone)>>))
              /\ pc' = "done"
              /\ calls' = calls
         ELSE /\ calls' = Append(calls,
                   Call("GET", "/api/tasks/:id", id, <<>>))
              /\ pc' = "editCatchFetch"
              /\ sent' = sent
  /\ UNCHANGED <<now, zone, ticks, route, id, statusParam, query, body, clientErrors, errors,
                 dueDate, handledAt>>

\* the await of axios.put settles
EditWriteReplies ==
  /\ pc = "editWrite"
  /\ \E o \in Outcomes :
       /\ replies' = Append(replies, o)
       /\ data' = Append(data, <<>>)
       /\ IF o = "ok"
         THEN /\ sent' = Append(sent, Redirect("/tasks/:id", id))
              /\ pc' = "done"
              /\ calls' = calls
         ELSE /\ calls' = Append(calls,
                   Call("GET", "/api/tasks/:id", id, <<>>))
              /\ pc' = "editCatchFetch"
              /\ sent' = sent
  /\ UNCHANGED <<now, zone, ticks, route, id, statusParam, query, body, clientErrors, errors,
                 dueDate, handledAt>>

\* the await of the fetch inside the catch block settles
EditCatchFetchReplies ==
  /\ pc = "editCatchFetch"
  /\ \E o \in Outcomes :
       /\ replies' = Append(replies, o)
       /\ data' = Append(data, IF o = "ok" THEN <<TaskData(id)>> ELSE <<>>)
       /\ sent' = Append(sent,
         IF o = "ok"
           THEN Render("tasks/edit", 200, <<>>,
                       "Failed to update task. Please try again.", "",
                       <<body>>,
                       <<FormatSingleTask(TaskData(id), Clock, zone)>>)
           ELSE Render("error", 200, <<>>, "", "Failed to update task",
                       <<>>, <<>>))
  /\ pc' = "done"
  /\ UNCHANGED <<now, zone, ticks, route, id, statusParam, query, body, clientErrors, errors,
                 dueDate, handledAt, calls>>

(***************************************************************************)
(* List pages: GET /, GET /tasks/filter/:status and GET /tasks/search.     *)
(* The tasks read is call 1 and the statistics read is call 2; both are    *)
(* in flight ("pending") from the moment Promise.all is built.             *)
(***************************************************************************)
ListRoutes == {"home", "filter", "search"}

\* encodeURIComponent on the characters of the model
RECURSIVE EncodeURIComponent(_)
EncodeURIComponent(s) ==
  IF s = <<>> THEN <<>>
  ELSE (CASE Head(s) = " " -> <<"%", "2", "0">>
          [] Head(s) = "\t" -> <<"%", "0", "9">>
          [] OTHER -> <<Head(s)>>) \o EncodeURIComponent(Tail(s))

ExampleData == "example-case"

\* both requests are created, then the handler awaits Promise.all
Dispatch(tasksCall) ==
  /\ calls' = calls \o
       <<tasksCall, Call("GET", "/api/tasks/statistics", 0, <<>>)>>
  /\ replies' = replies \o <<"pending", "pending">>
  /\ data' = data \o << <<>>, <<>> >>
  /\ pc' = "listReads"
  /\ sent' = sent

GetHome ==
  /\ pc = "requested"
  /\ route = "home"
  /\ Dispatch(Call("GET", "/api/tasks", 0, <<>>))
  /\ UNCHANGED <<now, zone, ticks, route, id, statusParam, query, body,
                 clientErrors, errors, dueDate, handledAt>>

GetFilter ==
  /\ pc = "requested"
  /\ route = "filter"
  /\ Dispatch(Call("GET", "/api/tasks/status/:status", 0, statusParam))
  /\ UNCHANGED <<now, zone, ticks, route, id, statusParam, query, body,
                 clientErrors, errors, dueDate, handledAt>>

\* the search guard letting an empty string through
SearchQueryGivenUnlessUndefined(q) == q # Missing

\* if (!query) return res.redirect('/')
SearchQueryGiven(q) == Truthy(q)

\* the search handler with the redirect not returned from
GetSearchNoReturn ==
  /\ pc = "requested"
  /\ route = "search"
  /\ calls' = calls \o
       <<Call("GET", "/api/tasks/search?query=", 0,
              IF query = Missing THEN query ELSE EncodeURIComponent(query)),
         Call("GET", "/api/tasks/statistics", 0, <<>>)>>
  /\ replies' = replies \o <<"pending", "pending">>
  /\ data' = data \o << <<>>, <<>> >>
  /\ pc' = "listReads"
  /\ sent' = IF SearchQueryGiven(query) THEN sent
             ELSE Append(sent, Redirect("/", 0))
  /\ UNCHANGED <<now, zone, ticks, route, id, statusParam, query, body,
                 clientErrors, errors, dueDate, handledAt>>

GetSearch ==
  /\ pc = "requested"
  /\ route = "search"
  /\ IF SearchQueryGiven(query)
       THEN Dispatch(Call("GET", "/api/tasks/search?query=", 0,
                          EncodeURIComponent(query)))
       ELSE /\ sent' = Append(sent, Redirect("/", 0))
            /\ pc' = "done"
            /\ UNCHANGED <<calls, replies, data>>
  /\ UNCHANGED <<now, zone, ticks, route, id, statusParam, query, body,
                 clientErrors, errors, dueDate, handledAt>>

\* a combinator fulfilled by the first fulfilled read
PromiseAny(rs) ==
  IF \E i \in 1..2 : rs[i] = "ok" THEN "fulfilled"
  ELSE IF \E i \in 1..2 : rs[i] = "pending" THEN "pending"
  ELSE "rejected"

\* Promise.all([tasks, statistics]): rejected as soon as one read is
\* rejected, fulfilled when both are fulfilled
PromiseAll(rs) ==
  IF \E i \in 1..2 : rs[i] \notin {"ok", "pending"} THEN "rejected"
  ELSE IF \A i \in 1..2 : rs[i] = "ok" THEN "fulfilled"
  ELSE "pending"

\* the catch block rendering what had arrived
ListFailurePartial(r, arrived) ==
  RenderList("Failed to load tasks. Please try again later.",
             <<>>, arrived[2], <<>>, "all", Missing)

\* the catch block of the three handlers
ListFailure(r, arrived) ==
  CASE r = "home" ->
         RenderList("Failed to load tasks. Please try again later.",
                    <<>>, <<>>, <<>>, "all", Missing)
    [] r = "filter" ->
         RenderList("Failed to load " \o statusParam \o " tasks.",
                    <<>>, <<>>, <<>>, statusParam, Missing)
    [] r = "search" ->
         RenderList("Search failed. Please try again.",
                    <<>>, <<>>, <<>>, "search", query)

\* tasksResponse.data, an array
TasksOf(d) == IF d = <<>> THEN <<>> ELSE d[1]

\* the render of the try block of the three handlers
ListPage(r, arrived, example) ==
  RenderList("", FormatTasksWithDates(TasksOf(arrived[1]), Clock, zone),
             arrived[2], example,
             CASE r = "home" -> "all" [] r = "filter" -> statusParam
               [] r = "search" -> "search",
             IF r = "search" THEN query ELSE Missing)

\* one of the two reads settles while the handler awaits Promise.all
ReadSettles ==
  /\ pc = "listReads"
  /\ \E i \in 1..2, o \in Outcomes :
       \E l \in IF i = 1 /\ o = "ok" THEN TaskLists ELSE {<<>>} :
         /\ replies[i] = "pending"
         /\ replies' = [replies EXCEPT ![i] = o]
         /\ data' = [data EXCEPT ![i] =
                       IF o # "ok" THEN <<>>
                       ELSE IF i = 1 THEN <<l>> ELSE <<StatsData>>]
         /\ CASE PromiseAll(replies') = "pending" ->
                  UNCHANGED <<pc, calls, sent>>
              [] PromiseAll(replies') = "rejected" ->
                  /\ sent' = Append(sent, ListFailure(route, data'))
                  /\ pc' = "done"
                  /\ calls' = calls
              [] PromiseAll(replies') = "fulfilled" ->
                  IF route = "home"
                    THEN /\ calls' = Append(calls,
                              Call("GET", "/get-example-case", 0, <<>>))
                         /\ pc' = "exampleRead"
                         /\ sent' = sent
                    ELSE /\ sent' = Append(sent,
                              ListPage(route, data', <<>>))
                         /\ pc' = "done"
                         /\ calls' = calls
  /\ UNCHANGED <<now, zone, ticks, route, id, statusParam, query, body,
                 clientErrors, errors, dueDate, handledAt>>

\* the inner try/catch of GET /: example stays null when the read fails
ExampleReplies ==
  /\ pc = "exampleRead"
  /\ \E o \in Outcomes :
       /\ replies' = Append(replies, o)
       /\ data' = Append(data, IF o = "ok" THEN <<ExampleData>> ELSE <<>>)
       /\ sent' = Append(sent, ListPage(route, data', data'[3]))
  /\ pc' = "done"
  /\ UNCHANGED <<now, zone, ticks, route, id, statusParam, query, body,
                 clientErrors, errors, dueDate, handledAt, calls>>

\* the read still in flight when Promise.all was rejected settles; its
\* result is held by nobody
LateReply ==
  /\ pc = "done"
  /\ \E i \in 1..Len(replies), o \in Outcomes :
       /\ replies[i] = "pending"
       /\ replies' = [replies EXCEPT ![i] = o]
  /\ UNCHANGED <<now, zone, ticks, pc, route, id, statusParam, query, body,
                 clientErrors, errors, dueDate, handledAt, calls, data,
                 sent>>

(***************************************************************************)
(* Detail page and edit form: GET /tasks/:id and GET /tasks/:id/edit.      *)
(***************************************************************************)
GetTask ==
  /\ pc = "requested"
  /\ route = "view"
  /\ calls' = Append(calls, Call("GET", "/api/tasks/:id", id, <<>>))
  /\ pc' = "viewRead"
  /\ UNCHANGED <<now, zone, ticks, route, id, statusParam, query, body,
                 clientErrors, errors, dueDate, handledAt, replies, data,
                 sent>>

\* the catch block answering every failure with the error view
ReadFailureNo404(o, message) ==
  Render("error", 200, <<>>, "", message, <<>>, <<>>)

\* the catch block of the two handlers: error.response?.status === 404
ReadFailure(o, message) ==
  IF o = "notFound"
    THEN Render("not-found", 404, <<>>, "", "", <<>>, <<>>)
    ELSE Render("error", 200, <<>>, "", message, <<>>, <<>>)

\* the await of axios.get settles
GetTaskReplies ==
  /\ pc = "viewRead"
  /\ \E o \in Outcomes :
       \E t \in IF o = "ok" THEN TaskRecords(id) ELSE {TaskData(id)} :
         /\ replies' = Append(replies, o)
         /\ data' = Append(data, IF o = "ok" THEN <<t>> ELSE <<>>)
         /\ sent' = Append(sent,
              IF o = "ok"
                THEN Render("tasks/view", 200, <<>>, "", "", <<>>,
                            <<FormatSingleTask(t, Clock, zone)>>)
                ELSE ReadFailure(o, "Failed to load task details"))
  /\ pc' = "done"
  /\ UNCHANGED <<now, zone, ticks, route, id, statusParam, query, body,
                 clientErrors, errors, dueDate, handledAt, calls>>

GetEditForm ==
  /\ pc = "requested"
  /\ route = "editForm"
  /\ calls' = Append(calls, Call("GET", "/api/tasks/:id", id, <<>>))
  /\ pc' = "editFormRead"
  /\ UNCHANGED <<now, zone, ticks, route, id, statusParam, query, body,
                 clientErrors, errors, dueDate, handledAt, replies, data,
                 sent>>

GetEditFormReplies ==
  /\ pc = "editFormRead"
  /\ \E o \in Outcomes :
       \E t \in IF o = "ok" THEN TaskRecords(id) ELSE {TaskData(id)} :
         /\ replies' = Append(replies, o)
         /\ data' = Append(data, IF o = "ok" THEN <<t>> ELSE <<>>)
         /\ sent' = Append(sent,
              IF o = "ok"
                THEN Render("tasks/edit", 200, <<>>, "", "", <<>>,
                            <<FormatSingleTask(t, Clock, zone)>>)
                ELSE ReadFailure(o, "Failed to load task for editing"))
  /\ pc' = "done"
  /\ UNCHANGED <<now, zone, ticks, route, id, statusParam, query, body,
                 clientErrors, errors, dueDate, handledAt, calls>>

\* GET /tasks/create
GetCreateForm ==
  /\ pc = "requested"
  /\ route = "createForm"
  /\ sent' = Append(sent, Render("tasks/create", 200, <<>>, "", "", <<>>, <<>>))
  /\ pc' = "done"
  /\ UNCHANGED <<now, zone, ticks, route, id, statusParam, query, body,
                 clientErrors, errors, dueDate, handledAt, calls, replies,
                 data>>

(***************************************************************************)
(* Quick actions: POST /tasks/:id/status and POST /tasks/:id/delete.       *)
(***************************************************************************)
PostStatus ==
  /\ pc = "requested"
  /\ route = "status"
  /\ calls' = Append(calls, Call("PATCH", "/api/tasks/:id/status", id,
                                 [status |-> body.status]))
  /\ pc' = "statusWrite"
  /\ UNCHANGED <<now, zone, ticks, route, id, statusParam, query, body,
                 clientErrors, errors, dueDate, handledAt, replies, data,
                 sent>>

\* the status handler answering a failure with the error view
StatusRedirectOrError(o, i) ==
  IF o = "ok" THEN Redirect("/tasks/:id", i)
              ELSE Render("error", 200, <<>>, "", "Failed to update task",
                          <<>>, <<>>)

\* the redirect of the try block and the redirect of the catch block
StatusRedirect(o, i) ==
  IF o = "ok" THEN Redirect("/tasks/:id", i) ELSE Redirect("/tasks/:id", i)

StatusReplies ==
  /\ pc = "statusWrite"
  /\ \E o \in Outcomes :
       /\ replies' = Append(replies, o)
       /\ data' = Append(data, <<>>)
       /\ sent' = Append(sent, StatusRedirect(o, id))
  /\ pc' = "done"
  /\ UNCHANGED <<now, zone, ticks, route, id, statusParam, query, body,
                 clientErrors, errors, dueDate, handledAt, calls>>

PostDelete ==
  /\ pc = "requested"
  /\ route = "delete"
  /\ calls' = Append(calls, Call("DELETE", "/api/tasks/:id", id, <<>>))
  /\ pc' = "deleteWrite"
  /\ UNCHANGED <<now, zone, ticks, route, id, statusParam, query, body,
                 clientErrors, errors, dueDate, handledAt, replies, data,
                 sent>>

\* the delete handler answering every outcome with the list
DeleteRedirectAlwaysList(o, i) == Redirect("/", 0)

\* res.redirect('/') of the try block, res.redirect(`/tasks/${id}`) of
\* the catch block
DeleteRedirect(o, i) ==
  IF o = "ok" THEN Redirect("/", 0) ELSE Redirect("/tasks/:id", i)

DeleteReplies ==
  /\ pc = "deleteWrite"
  /\ \E o \in Outcomes :
       /\ replies' = Append(replies, o)
       /\ data' = Append(data, <<>>)
       /\ sent' = Append(sent, DeleteRedirect(o, id))
  /\ pc' = "done"
  /\ UNCHANGED <<now, zone, ticks, route, id, statusParam, query, body,
                 clientErrors, errors, dueDate, handledAt, calls>>

(***************************************************************************)
(* The clock.                                                              *)
(***************************************************************************)
Tick ==
  /\ ticks < MaxTicks
  /\ pc # "done"
  /\ now' = now + TickHours
  /\ ticks' = ticks + 1
  /\ UNCHANGED <<zone, pc, route, id, statusParam, query, body, clientErrors, errors, dueDate,
                 handledAt, calls, replies, data, sent>>

Next ==
  \/ BrowserSubmit
  \/ DirectSubmit
  \/ PostCreate
  \/ CreateWriteReplies
  \/ PostEdit
  \/ EditRefetchReplies
  \/ EditWriteReplies
  \/ EditCatchFetchReplies
  \/ GetHome
  \/ GetFilter
  \/ GetSearch
  \/ ReadSettles
  \/ ExampleReplies
  \/ LateReply
  \/ GetTask
  \/ GetTaskReplies
  \/ GetEditForm
  \/ GetEditFormReplies
  \/ GetCreateForm
  \/ PostStatus
  \/ StatusReplies
  \/ PostDelete
  \/ DeleteReplies
  \/ Tick

Spec == Init /\ [][Next]_vars

\* the synchronous part of a handler, run by the event loop once the
\* request has arrived
HandlerEntry ==
  \/ PostCreate
  \/ PostEdit
  \/ GetHome
  \/ GetFilter
  \/ GetSearch
  \/ GetTask
  \/ GetEditForm
  \/ GetCreateForm
  \/ PostStatus
  \/ PostDelete

\* an awaited backend call settles and the handler resumes
BackendSettles ==
  \/ CreateWriteReplies
  \/ EditRefetchReplies
  \/ EditWriteReplies
  \/ EditCatchFetchReplies
  \/ ReadSettles
  \/ ExampleReplies
  \/ LateReply
  \/ GetTaskReplies
  \/ GetEditFormReplies
  \/ StatusReplies
  \/ DeleteReplies

\* one submission that passes validation and one that fails it
LiveBodies ==
  { Body(GoodTitle, GoodDescription, "IN_PROGRESS", Missing, Missing, Missing),
    Body(<<>>, GoodDescription, "", S(15), S(12), <<>>) }

\* every route, at one hour of the clock
InitLive ==
  /\ zone \in Zones
  /\ now = InstantOf([y |-> 2024, m |-> 2, d |-> 28, h |-> 0], zone)
  /\ \/ /\ InitForm
        /\ body \in LiveBodies
     \/ InitRequest
  /\ InitHandler

\* the handlers when every request that arrived is handled and every
\* backend call completes
SpecLive ==
  InitLive /\ [][Next]_vars
    /\ WF_vars(HandlerEntry) /\ WF_vars(BackendSettles)

(***************************************************************************)
(* The two validators as functions of one submission: both are applied to  *)
(* the same field values under the same clock, in either order.            *)
(***************************************************************************)
OddNumbers ==
  {Missing, <<>>, <<" ">>, <<"a", "b">>, <<"-", "1">>, <<"1", "x">>,
   <<" ", "7">>}

ValidatorDays == {S(d) : d \in 0..MaxDayInput} \cup OddNumbers
ValidatorMonths ==
  {S(m) : m \in 0..MaxMonthInput} \cup {<<>>, <<" ">>, <<"a", "b">>}
ValidatorYears ==
  {S(y) : y \in (MaxYearInput - YearSpan)..MaxYearInput}
    \cup {<<>>, S(99), <<"x">>}

ShortTitle == <<" ", "H", "i">>
ShortDescription == <<"D", "o", " ", "i", "t">>

\* values right at the minimum lengths of the browser's checks
EdgeTitles == {<<"\t", "T", "e", "a">>}
EdgeDescriptions ==
  { <<"B", "u", "y", " ", "s", "t", "a", "m", "p", " ">>,
    <<" ", "B", "u", "y", " ", "s", "t", "a", "m", "p", "s">> }

ValidatorBodies ==
  { Body(t, de, "TODO", dt[1], dt[2], dt[3]) :
      t \in TitleValues \cup {ShortTitle} \cup EdgeTitles,
      de \in DescriptionValues \cup {ShortDescription} \cup EdgeDescriptions,
      dt \in FewDates }
  \cup
  { Body(GoodTitle, GoodDescription, "TODO", d, m, y) :
      d \in ValidatorDays, m \in ValidatorMonths, y \in ValidatorYears }

InitValidators ==
  /\ zone \in Zones
  /\ \E l \in LocalStarts : now = InstantOf(l, zone)
  /\ pc = "input"
  /\ route = "create"
  /\ statusParam = ""
  /\ query = Missing
  /\ id = 0
  /\ body \in ValidatorBodies
  /\ InitHandler

\* the validation block of the server handlers, run on the submission
RunServerValidator ==
  /\ pc \in {"input", "clientRan"}
  /\ LET v == ServerValidate(body, Clock, zone)
     IN /\ errors' = v.errors
        /\ dueDate' = v.dueDate
  /\ handledAt' = now
  /\ pc' = IF pc = "input" THEN "serverRan" ELSE "bothRan"
  /\ UNCHANGED <<now, zone, ticks, route, id, statusParam, query, body, clientErrors, calls,
                 replies, data, sent>>

\* the browser's submit listener, run on the same field values
RunClientValidator ==
  /\ pc \in {"input", "serverRan"}
  /\ clientErrors' = ClientValidate(body, Clock, zone)
  /\ pc' = IF pc = "input" THEN "clientRan" ELSE "bothRan"
  /\ UNCHANGED <<now, zone, ticks, route, id, statusParam, query, body, errors, dueDate,
                 handledAt, calls, replies, data, sent>>

\* the accepted dueDate comes back as the dueDate of the stored task and
\* formatSingleTask assembles the record the edit form is filled from
RunFormatter ==
  /\ pc \in {"serverRan", "bothRan"}
  /\ errors = <<>>
  /\ ~dueDate.null
  /\ data = <<>>
  /\ data' = << <<FormatSingleTask(Task(1, "TODO", dueDate), Clock, zone)>> >>
  /\ UNCHANGED <<now, zone, ticks, pc, route, id, statusParam, query, body,
                 clientErrors, errors, dueDate, handledAt, calls, replies,
                 sent>>

NextValidators ==
  \/ RunServerValidator
  \/ RunClientValidator
  \/ RunFormatter

SpecValidators == InitValidators /\ [][NextValidators]_vars

(***************************************************************************)
(* Properties.                                                             *)
(***************************************************************************)
\* the request is a create or edit submission
FormRoute == route \in {"create", "edit"}

\* the server handler has run its validation block
ServerValidated ==
  /\ FormRoute
  /\ pc \in {"createWrite", "editRefetch", "editWrite", "editCatchFetch",
              "done", "serverRan", "bothRan"}

IsWrite(c) == c.method \in {"POST", "PUT"}
NoWriteIssued == \A i \in 1..Len(calls) : ~IsWrite(calls[i])
NoRedirectSent == \A i \in 1..Len(sent) : sent[i].kind # "redirect"

FormView == IF route = "create" THEN "tasks/create" ELSE "tasks/edit"

\* the one response is the originating form with the validation errors
\* and the body as submitted
FormWithErrors ==
  /\ Len(sent) = 1
  /\ sent[1].kind = "render"
  /\ sent[1].view = FormView
  /\ sent[1].errors = errors
  /\ sent[1].formData = <<body>>

\* C1 as stated: whenever validation found an error, the finished request
\* was answered by the originating form with the error list and the echoed
\* input, and no write was issued.
C1_AlwaysFormWithErrors ==
  (pc = "done" /\ errors # <<>>) => (FormWithErrors /\ NoWriteIssued)

\* C1 (amended): a submission whose validation found an error never issues
\* a POST/PUT and is never answered by a redirect; on the create route the
\* answer is tasks/create with the error list and the echoed input, and on
\* the edit route it is tasks/edit with the error list and the echoed input
\* whenever the re-fetch of the task succeeded.
C1_FormWithErrorsUnlessRefetchFails ==
  (ServerValidated /\ errors # <<>>) =>
    /\ NoWriteIssued
    /\ NoRedirectSent
    /\ (pc = "done" /\ route = "create") => FormWithErrors
    /\ (pc = "done" /\ route = "edit" /\ replies[1] = "ok") => FormWithErrors

C1_Witness ==
  /\ pc = "done"
  /\ route = "edit"
  /\ Len(errors) = 3
  /\ replies = <<"ok">>
  /\ FormWithErrors

(***************************************************************************)
(* The calendar, stated independently of the Date arithmetic above.        *)
(***************************************************************************)
IsLeapYear(y) == (y % 4 = 0) /\ ((y % 100 # 0) \/ (y % 400 = 0))

DaysInMonth(y, m) ==
  IF m \in {4, 6, 9, 11} THEN 30
  ELSE IF m = 2 THEN (IF IsLeapYear(y) THEN 29 ELSE 28)
  ELSE 31

RealDate(y, m, d) == m \in 1..12 /\ d \in 1..DaysInMonth(y, m)

Civil(y, m, d) == [y |-> y, m |-> m, d |-> d]

CivilLess(a, b) ==
  \/ a.y < b.y
  \/ a.y = b.y /\ a.m < b.m
  \/ a.y = b.y /\ a.m = b.m /\ a.d < b.d

NextDay(c) ==
  IF c.d < DaysInMonth(c.y, c.m) THEN Civil(c.y, c.m, c.d + 1)
  ELSE IF c.m < 12 THEN Civil(c.y, c.m + 1, 1)
  ELSE Civil(c.y + 1, 1, 1)

PrevDay(c) ==
  IF c.d > 1 THEN Civil(c.y, c.m, c.d - 1)
  ELSE IF c.m > 1 THEN Civil(c.y, c.m - 1, DaysInMonth(c.y, c.m - 1))
  ELSE Civil(c.y - 1, 12, 31)

\* the numbers a field spells in plain decimal
SpelledBy(str, range) ==
  IF str = <<>> THEN {}
  ELSE {n \in range :
          DigitChar(n % 10) = str[Len(str)] /\ NumToString(n) = str}
EnteredDays == SpelledBy(body.day, 0..40)
EnteredMonths == SpelledBy(body.month, 0..20)
EnteredYears == SpelledBy(body.year, 0..99 \cup 2000..2040)

\* the local calendar day on which the server handler validated
HandledOn == CivilFromDays((handledAt + zone) \div 24)

\* local midnight of a calendar day, written in UTC
MidnightInUTC(c) ==
  IF zone > 0
    THEN [null |-> FALSE, y |-> PrevDay(c).y, m |-> PrevDay(c).m,
          d |-> PrevDay(c).d, h |-> 24 - zone]
    ELSE [null |-> FALSE, y |-> c.y, m |-> c.m, d |-> c.d, h |-> 0 - zone]

IsDateError(e) == e.href = "#due-date-day"
DateErrors == SelectSeq(errors, IsDateError)
WriteCalls == SelectSeq(calls, IsWrite)

\* C2: a real calendar date that is today or earlier is rejected with
\* exactly the 'must be in the future' error on the day field and nothing
\* is written; tomorrow's date raises no due-date error and every write
\* carries local midnight of that day as dueDate.
C2_StrictlyFuture ==
  ServerValidated =>
    \A y \in EnteredYears, m \in EnteredMonths, d \in EnteredDays :
      (y >= 100 /\ RealDate(y, m, d)) =>
        /\ (Civil(y, m, d) = HandledOn \/ CivilLess(Civil(y, m, d), HandledOn))
             => /\ DateErrors = <<[text |-> "Due date must be in the future",
                                   href |-> "#due-date-day"]>>
                /\ NoWriteIssued
        /\ (Civil(y, m, d) = NextDay(HandledOn))
             => /\ DateErrors = <<>>
                /\ \A i \in 1..Len(WriteCalls) :
                     WriteCalls[i].payload[1].dueDate
                       = MidnightInUTC(Civil(y, m, d))

C2_Witness ==
  /\ pc = "done"
  /\ Len(WriteCalls) = 1
  /\ ~WriteCalls[1].payload[1].dueDate.null
  /\ WriteCalls[1].payload[1].dueDate = MidnightInUTC(NextDay(HandledOn))
  /\ body.day \in {NumToString(NextDay(HandledOn).d)}

(***************************************************************************)
(* Rejection classes of the two validators.                                *)
(***************************************************************************)
DateClassOf(text) ==
  CASE text = "Please enter a complete due date or leave all fields blank"
         -> "incomplete"
    [] text = "Please enter a valid due date" -> "invalid"
    [] text \in {"Due date must be in the future",
                 "Due date cannot be in the past"} -> "notFuture"
    [] OTHER -> "other"

ClientDateErrors == SelectSeq(clientErrors, IsDateError)

Blank(str) == str = Missing \/ \A i \in 1..Len(str) : str[i] \in WhiteSpace

ServerDateClass ==
  IF DateErrors # <<>> THEN DateClassOf(DateErrors[1].text)
  ELSE IF dueDate.null THEN "absent" ELSE "valid"

ClientDateClass ==
  IF ClientDateErrors # <<>> THEN DateClassOf(ClientDateErrors[1].text)
  ELSE IF Blank(body.day) /\ Blank(body.month) /\ Blank(body.year)
         THEN "absent" ELSE "valid"

\* C3: on every (day, month, year) the browser's validator and the server's
\* validator put the due date in the same class: absent, valid, incomplete,
\* invalid or not in the future.
C3_SameDateClass ==
  pc = "bothRan" => ServerDateClass = ClientDateClass

\* C4: when one or two of the three parts are empty, whichever they are,
\* the server reports exactly one due-date error, the 'complete due date'
\* message on #due-date-day; when all three are empty it reports no
\* due-date error and dueDate stays null, also in the write payload.
EmptyPart(str) == str = Missing \/ str = <<>>
EmptyCount ==
  Cardinality({k \in {"day", "month", "year"} : EmptyPart(body[k])})

C4_IncompleteOrAbsent ==
  ServerValidated =>
    /\ EmptyCount \in {1, 2} =>
         DateErrors =
           <<[text |-> "Please enter a complete due date or leave all fields blank",
              href |-> "#due-date-day"]>>
    /\ EmptyCount = 3 =>
         /\ DateErrors = <<>>
         /\ dueDate.null
         /\ \A i \in 1..Len(WriteCalls) : WriteCalls[i].payload[1].dueDate.null

C4_Witness ==
  /\ pc = "done"
  /\ ~EmptyPart(body.day)
  /\ body.month = <<>>
  /\ body.year = <<>>
  /\ Len(sent) = 1
  /\ sent[1].errors = <<DateIncomplete>>

\* C5: with all three parts non-blank, a part that does not parse, a day
\* outside 1..31, a month outside 1..12 or a year below the minimum year
\* gets exactly the 'Please enter a valid due date' error on the day field
\* from the server's validator and from the browser's.
InvalidDateError ==
  [text |-> "Please enter a valid due date", href |-> "#due-date-day"]

MalformedParts ==
  LET d == ParseInt(body.day)
      m == ParseInt(body.month)
      y == ParseInt(body.year)
  IN \/ d.nan \/ m.nan \/ y.nan
     \/ d.n < 1 \/ d.n > 31
     \/ m.n < 1 \/ m.n > 12
     \/ y.n < MinSaneYear

C5_MalformedIsInvalid ==
  (pc = "bothRan" /\ ~Blank(body.day) /\ ~Blank(body.month)
     /\ ~Blank(body.year) /\ MalformedParts)
    => /\ DateErrors = <<InvalidDateError>>
       /\ ClientDateErrors = <<InvalidDateError>>

\* C6: a day that does not exist in the entered month of the entered year
\* (Feb 30, Feb 31, Apr 31, Feb 29 outside leap years, ...) gets exactly the
\* 'invalid date' error from both validators and leaves dueDate null: it is
\* never rolled over into a later date.
YearMeant(y) == IF y <= 99 THEN 1900 + y ELSE y

C6_NoRollover ==
  \A y \in EnteredYears, m \in EnteredMonths, d \in EnteredDays :
    (m \in 1..12 /\ d >= 1 /\ d > DaysInMonth(YearMeant(y), m)) =>
      /\ pc \in {"serverRan", "bothRan"} =>
           (DateErrors = <<InvalidDateError>> /\ dueDate.null)
      /\ pc \in {"clientRan", "bothRan"} =>
           ClientDateErrors = <<InvalidDateError>>

C6_Witness ==
  /\ pc = "bothRan"
  /\ body.day = NumToString(29)
  /\ body.month = NumToString(2)
  /\ body.year = NumToString(2025)
  /\ errors = <<InvalidDateError>>
  /\ clientErrors = <<InvalidDateError>>

\* C7: the server's error list has exactly one entry per failing field, in
\* the order title, description, due date, whatever the other fields do.
DateAcceptable ==
  \/ EmptyCount = 3
  \/ \E y \in EnteredYears, m \in EnteredMonths, d \in EnteredDays :
       y >= 100 /\ RealDate(y, m, d) /\ CivilLess(HandledOn, Civil(y, m, d))

ExpectedAnchors ==
  (IF Blank(body.title) THEN <<"#title">> ELSE <<>>)
    \o (IF Blank(body.description) THEN <<"#description">> ELSE <<>>)
    \o (IF DateAcceptable THEN <<>> ELSE <<"#due-date-day">>)

C7_OneErrorPerFieldInOrder ==
  ServerValidated /\ pc \notin {"serverRan", "bothRan"} =>
    /\ [i \in 1..Len(errors) |-> errors[i].href] = ExpectedAnchors
    /\ \A i \in 1..Len(sent) :
         sent[i].errors # <<>> => sent[i].errors = errors

C7_Witness ==
  /\ pc = "done"
  /\ route = "create"
  /\ Len(sent) = 1
  /\ [i \in 1..Len(sent[1].errors) |-> sent[1].errors[i].href]
       = <<"#title", "#description", "#due-date-day">>

\* C8: a title or description that is missing, empty or only white space
\* is reported by the server as '<Field> is required' on #title /
\* #description, and a form field holding an empty or white-space-only
\* value is reported the same way by the browser.
TitleRequiredError == [text |-> "Title is required", href |-> "#title"]
DescriptionRequiredError ==
  [text |-> "Description is required", href |-> "#description"]

Reports(errs, e) == \E i \in 1..Len(errs) : errs[i] = e

C9_EchoOnEveryError ==
  FormRoute =>
    \A i \in 1..Len(sent) :
      sent[i].kind = "render" => sent[i].formData = <<body>>

\* C10: every write carries the trimmed title and description; the create
\* write carries the submitted status or TODO when there is none, the edit
\* write the submitted status as it is; a create whose write succeeded is
\* answered by a redirect to '/', an edit by a redirect to '/tasks/:id'.
IsTrimOf(out, raw) ==
  /\ raw # Missing
  /\ out # <<>>
  /\ out[1] \notin WhiteSpace
  /\ out[Len(out)] \notin WhiteSpace
  /\ \E k \in 0..Len(raw) :
       /\ k + Len(out) <= Len(raw)
       /\ SubSeq(raw, k + 1, k + Len(out)) = out
       /\ \A i \in 1..k : raw[i] \in WhiteSpace
       /\ \A i \in (k + Len(out) + 1)..Len(raw) : raw[i] \in WhiteSpace

C10_NormalizedWriteThenRedirect ==
  /\ \A i \in 1..Len(WriteCalls) :
       LET c == WriteCalls[i]
           p == c.payload[1]
       IN /\ IsTrimOf(p.title, body.title)
          /\ IsTrimOf(p.description, body.description)
          /\ c.method = "POST" =>
               /\ route = "create"
               /\ p.status = IF body.status \in {StatusMissing, ""}
                               THEN "TODO" ELSE body.status
          /\ c.method = "PUT" =>
               /\ route = "edit"
               /\ c.id = id
               /\ p.status = body.status
  /\ (pc = "done" /\ Len(WriteCalls) = 1 /\ replies[1] = "ok") =>
       /\ Len(sent) = 1
       /\ sent[1].kind = "redirect"
       /\ sent[1].target = IF route = "create"
                             THEN [path |-> "/", id |-> 0]
                             ELSE [path |-> "/tasks/:id", id |-> id]

C10_Witness ==
  /\ pc = "done"
  /\ route = "create"
  /\ body.status = StatusMissing
  /\ Len(WriteCalls) = 1
  /\ WriteCalls[1].payload[1].status = "TODO"
  /\ WriteCalls[1].payload[1].title # body.title
  /\ replies = <<"ok">>
  /\ sent[1].kind = "redirect"

(***************************************************************************)
(* Properties of the routes without a form.                                *)
(***************************************************************************)
IsView(r, view, code) == r.kind = "render" /\ r.view = view /\ r.code = code

\* C11: on the detail and the edit-form route a read answered 404 yields
\* the not-found view with status 404 and nothing else does, any other
\* failed read yields the error view and nothing else does, and a
\* successful read yields the page of the route.
C11_NotFoundVersusError ==
  (route \in {"view", "editForm"} /\ pc = "done") =>
    /\ Len(replies) = 1
    /\ Len(sent) = 1
    /\ (replies[1] = "notFound") <=> IsView(sent[1], "not-found", 404)
    /\ (replies[1] = "failure") <=> (sent[1].view = "error")
    /\ (replies[1] = "ok") <=>
         IsView(sent[1],
                IF route = "view" THEN "tasks/view" ELSE "tasks/edit", 200)
    /\ sent[1].view = "error" =>
         /\ sent[1].code # 404
         /\ sent[1].message = IF route = "view"
                                THEN "Failed to load task details"
                                ELSE "Failed to load task for editing"

C11_Witness ==
  /\ route = "view"
  /\ id = 999
  /\ pc = "done"
  /\ replies = <<"notFound">>
  /\ IsView(sent[1], "not-found", 404)

\* the tasks read or the statistics read was answered with a failure
ListReadFailed ==
  \E i \in 1..2 : i <= Len(replies) /\ replies[i] \in {"notFound", "failure"}

\* C12: on the list, filter and search routes a failed tasks read or a
\* failed statistics read is answered by the list view with no tasks, null
\* statistics and a failure message, rendered with status 200; a list page
\* carrying statistics is rendered only when both reads succeeded, and a
\* list page without statistics carries no tasks.
C12_NoPartialPage ==
  route \in ListRoutes =>
    /\ ListReadFailed =>
         /\ Len(sent) = 1
         /\ IsView(sent[1], "home", 200)
         /\ sent[1].list.tasks = <<>>
         /\ sent[1].list.statistics = <<>>
         /\ sent[1].error # ""
    /\ \A i \in 1..Len(sent) :
         sent[i].kind = "render" =>
           /\ IsView(sent[i], "home", 200)
           /\ sent[i].list.statistics = <<>> =>
                (sent[i].list.tasks = <<>> /\ ListReadFailed)
           /\ sent[i].list.statistics # <<>> =>
                /\ replies[1] = "ok" /\ replies[2] = "ok"
                /\ sent[i].error = ""
                /\ Len(sent[i].list.tasks) = Len(data[1][1])

\* a task array of two had arrived and is dropped when the statistics
\* read fails
C12_Witness ==
  /\ route = "filter"
  /\ pc = "done"
  /\ replies = <<"ok", "failure">>
  /\ data[1] # <<>>
  /\ Len(data[1][1]) = 2
  /\ sent[1].list.tasks = <<>>
  /\ sent[1].list.statistics = <<>>
  /\ sent[1].list.currentFilter = "bogus"

\* both reads are in flight before the handler awaits
BothDispatchedTogether ==
  (route \in ListRoutes /\ calls # <<>>) =>
    /\ Len(calls) >= 2
    /\ Len(replies) >= 2
    /\ calls[2].path = "/api/tasks/statistics"
    /\ calls[1].path = (CASE route = "home" -> "/api/tasks"
                           [] route = "filter" -> "/api/tasks/status/:status"
                           [] route = "search" -> "/api/tasks/search?query=")

\* C13 as stated: both reads are dispatched before either is awaited and a
\* response is sent only after both reads have completed, also when one of
\* them fails.
C13_ResponseAfterBothCompleted ==
  /\ BothDispatchedTogether
  /\ (route \in ListRoutes /\ calls # <<>> /\ sent # <<>>) =>
       (replies[1] # "pending" /\ replies[2] # "pending")

\* C13: both reads are dispatched before either is awaited; the list page
\* is sent only after both reads have completed successfully; a failure
\* response is sent only after one read has failed, and a read may still
\* be in flight then.
C13_ResponseAfterBothOrFirstFailure ==
  /\ BothDispatchedTogether
  /\ (route \in ListRoutes /\ calls # <<>> /\ sent # <<>>) =>
       /\ Len(sent) = 1
       /\ sent[1].error = "" => (replies[1] = "ok" /\ replies[2] = "ok")
       /\ sent[1].error # "" => ListReadFailed
       /\ (\E i \in 1..2 : replies[i] = "pending") => sent[1].error # ""

C13_Witness ==
  /\ route = "home"
  /\ replies = <<"failure", "pending">>
  /\ Len(sent) = 1
  /\ sent[1].error = "Failed to load tasks. Please try again later."

\* C14: POST /tasks/:id/status issues exactly one PATCH of the status as
\* submitted and, once it is answered, whatever the answer, sends exactly
\* one redirect to /tasks/:id; nothing is sent before the answer and no
\* view is rendered.
C14_StatusAlwaysRedirects ==
  (route = "status" /\ pc # "requested") =>
    /\ calls = <<Call("PATCH", "/api/tasks/:id/status", id,
                      [status |-> body.status])>>
    /\ pc = "statusWrite" => (sent = <<>> /\ replies = <<>>)
    /\ pc = "done" =>
         /\ Len(replies) = 1
         /\ Len(sent) = 1
         /\ sent[1].kind = "redirect"
         /\ sent[1].target = [path |-> "/tasks/:id", id |-> id]

C14_Witness ==
  /\ route = "status"
  /\ pc = "done"
  /\ body.status = "bogus"
  /\ replies = <<"failure">>
  /\ sent[1].target = [path |-> "/tasks/:id", id |-> id]

\* C15: POST /tasks/:id/delete issues one DELETE and redirects to '/'
\* exactly when it succeeded, to /tasks/:id exactly when it failed.
C15_ListOnlyAfterDelete ==
  (route = "delete" /\ pc = "done") =>
    /\ calls = <<Call("DELETE", "/api/tasks/:id", id, <<>>)>>
    /\ Len(replies) = 1
    /\ Len(sent) = 1
    /\ sent[1].kind = "redirect"
    /\ (sent[1].target = [path |-> "/", id |-> 0]) <=> (replies[1] = "ok")
    /\ (sent[1].target = [path |-> "/tasks/:id", id |-> id])
         <=> (replies[1] # "ok")

C15_Witness ==
  /\ route = "delete"
  /\ pc = "done"
  /\ replies = <<"notFound">>
  /\ sent[1].target = [path |-> "/tasks/:id", id |-> id]

\* C16: GET /tasks/search with a missing or empty query sends a redirect to
\* '/' and calls nothing; with a non-empty query it reads the tasks by that
\* query and the statistics, and every page it renders is the list with the
\* query as searchTerm, holding the tasks read when both reads succeeded.
C16_SearchGuard ==
  (route = "search" /\ pc # "requested") =>
    /\ (query = Missing \/ Len(query) = 0) =>
         /\ calls = <<>>
         /\ sent = <<Redirect("/", 0)>>
    /\ (query # Missing /\ Len(query) > 0) =>
         /\ Len(calls) = 2
         /\ calls[1].method = "GET"
         /\ calls[1].path = "/api/tasks/search?query="
         /\ Len(calls[1].payload) >= Len(query)
         /\ calls[2] = Call("GET", "/api/tasks/statistics", 0, <<>>)
         /\ \A i \in 1..Len(sent) :
              /\ IsView(sent[i], "home", 200)
              /\ sent[i].list.searchTerm = query
              /\ sent[i].list.currentFilter = "search"
         /\ (pc = "done" /\ replies = <<"ok", "ok">>) =>
              /\ Len(sent) = 1
              /\ sent[1].list.statistics = data[2]
              /\ Len(sent[1].list.tasks) = Len(data[1][1])

C16_Witness ==
  /\ route = "search"
  /\ query = <<" ">>
  /\ pc = "done"
  /\ replies = <<"ok", "ok">>
  /\ calls[1].payload = <<"%", "2", "0">>
  /\ sent[1].list.searchTerm = <<" ">>
  /\ Len(sent[1].list.tasks) = 1

\* every task record of every response sent, list pages and single pages
RenderedTasks ==
  UNION { {sent[i].list.tasks[k] : k \in 1..Len(sent[i].list.tasks)}
            \cup {sent[i].task[k] : k \in 1..Len(sent[i].task)} :
          i \in 1..Len(sent) }

\* an ISO instant read as a point on the calendar, earlier than another
IsoBefore(a, b) ==
  \/ CivilLess(Civil(a.y, a.m, a.d), Civil(b.y, b.m, b.d))
  \/ a.y = b.y /\ a.m = b.m /\ a.d = b.d /\ a.h < b.h

\* C17: every task of every page sent has isOverdue true exactly when it
\* has a dueDate, the dueDate is earlier than the clock at the time of the
\* response, and its status is not COMPLETED; the list formatter and the
\* single-task formatter both compute that flag for its record.
C17_OverdueRule ==
  /\ \A t \in RenderedTasks :
       t.isOverdue <=>
         /\ ~t.dueDate.null
         /\ IsoBefore(t.dueDate, ToISOString(Clock))
         /\ t.status # "COMPLETED"
  /\ \A t \in RenderedTasks :
       LET orig == Task(t.id, t.status, t.dueDate)
       IN /\ FormatTaskInList(orig, Clock, zone).isOverdue = t.isOverdue
          /\ FormatSingleTask(orig, Clock, zone).isOverdue = t.isOverdue

\* a page listing a CANCELLED task flagged overdue next to a task that
\* falls due at this very hour and is not flagged
C17_Witness ==
  /\ route = "home"
  /\ pc = "done"
  /\ Len(sent) = 1
  /\ Len(sent[1].list.tasks) = 2
  /\ sent[1].list.tasks[1].status = "CANCELLED"
  /\ sent[1].list.tasks[1].isOverdue
  /\ sent[1].list.tasks[2].status = "TODO"
  /\ sent[1].list.tasks[2].dueDate = ToISOString(Clock)
  /\ ~sent[1].list.tasks[2].isOverdue

\* rec holds every field of orig with the value it has in orig
Preserves(rec, orig) ==
  \A f \in DOMAIN orig : f \in DOMAIN rec /\ rec[f] = orig[f]

\* C18: every task of every page sent holds every field of the record
\* the backend answered with, with its value unchanged: the tasks of a
\* list page against the array read, the task of a single page against
\* the record read last.
C18_OriginalFieldsKept ==
  \A i \in 1..Len(sent) :
    /\ \A k \in 1..Len(sent[i].list.tasks) :
         Preserves(sent[i].list.tasks[k], data[1][1][k])
    /\ \A k \in 1..Len(sent[i].task) :
         Preserves(sent[i].task[k], data[Len(data)][1])

C18_Witness ==
  /\ route = "view"
  /\ pc = "done"
  /\ replies = <<"ok">>
  /\ data[1][1].status = "CANCELLED"
  /\ sent[1].task[1].status = "CANCELLED"
  /\ sent[1].task[1].dueDate = ISO(2020, 1, 1, 10)
  /\ sent[1].task[1].isOverdue
  /\ DOMAIN data[1][1] # DOMAIN sent[1].task[1]

\* a date part of the assembled record against the field as entered: the
\* same number, and for a field in plain decimal the same digits
\* zero-padded to the given width
SamePart(part, entered, range, width) ==
  /\ ParseInt(part) = ParseInt(entered)
  /\ ~ParseInt(part).nan
  /\ \A n \in SpelledBy(entered, range) :
       part = (IF n < 10 /\ width = 2 THEN <<"0">> ELSE <<>>) \o entered

\* C19: when the validator accepted a due date and the dueDate of the
\* write payload is formatted as the dueDate of a task, dueDateDay,
\* dueDateMonth and dueDateYear are the day, month and year entered (day
\* and month zero-padded to two digits).
C19_DatePartsRoundTrip ==
  (pc \in {"serverRan", "bothRan"} /\ data # <<>>) =>
    LET t == data[1][1]
    IN /\ t.dueDate = dueDate
       /\ SamePart(t.dueDateDay, body.day, 0..40, 2)
       /\ SamePart(t.dueDateMonth, body.month, 0..20, 2)
       /\ SamePart(t.dueDateYear, body.year, 0..99 \cup 2000..2040, 4)

\* 1 March entered east of Greenwich: the payload carries 29 February UTC
C19_Witness ==
  /\ pc \in {"serverRan", "bothRan"}
  /\ data # <<>>
  /\ zone = 1
  /\ body.day = <<"1">> /\ body.month = <<"3">> /\ body.year = S(2024)
  /\ dueDate = ISO(2024, 2, 29, 23)
  /\ data[1][1].dueDateDay = <<"0", "1">>
  /\ data[1][1].dueDateMonth = <<"0", "3">>
  /\ data[1][1].dueDateYear = S(2024)

IsRead(c) == c.method = "GET"
ReadCalls == SelectSeq(calls, IsRead)

\* C20: an edit submission that failed validation reads the task exactly
\* once; when that read succeeds the answer is the edit form with the
\* validation errors and the echoed input, and when it fails the answer is
\* the generic error view.
C20_OneRefetchThenFormOrError ==
  (route = "edit" /\ ServerValidated /\ errors # <<>>) =>
    /\ Len(ReadCalls) <= 1
    /\ pc = "done" =>
         /\ Len(ReadCalls) = 1
         /\ Len(sent) = 1
         /\ replies[1] = "ok" => FormWithErrors
         /\ replies[1] # "ok" => IsView(sent[1], "error", 200)

\* positions of the characters of a field that are not white space
InkAt(str) == {i \in 1..Len(str) : str[i] \notin WhiteSpace}

\* how many characters remain when the white space around a field is cut
TrimmedLength(str) ==
  IF InkAt(str) = {} THEN 0
  ELSE LET first == CHOOSE i \in InkAt(str) : \A j \in InkAt(str) : i <= j
           last == CHOOSE i \in InkAt(str) : \A j \in InkAt(str) : j <= i
       IN last - first + 1

ErrorOn(errs, anchor) == \E i \in 1..Len(errs) : errs[i].href = anchor

Arrived == pc \notin {"typed", "prevented", "input", "clientRan",
                      "serverRan", "bothRan"}

\* the handler has sent its one response and has not sent another
Answered == pc = "done" /\ Len(sent) = 1

\* C22: every request that reaches a handler is answered by exactly one
\* render or redirect, whatever the backend answers, provided the handler
\* runs and every backend call completes: never two responses, none before
\* the handler finishes, and eventually one.
C22_ExactlyOneResponse ==
  /\ [](Len(sent) <= 1)
  /\ [](sent # <<>> => Answered)
  /\ [](Arrived => <>Answered)

\* GET / answered once after two successful reads and a failed third
C22_Witness ==
  /\ route = "home"
  /\ replies = <<"ok", "ok", "failure">>
  /\ Answered
  /\ sent[1].kind = "render"

====
